---- MODULE Spec2Model ----
(***************************************************************************)
(* Model of the movie listing handler getMovies of the movie controller:   *)
(* translation of req.query into a store filter, search, projection, sort  *)
(* and pagination window, the two store round trips (countDocuments, then  *)
(* the page query) and the response envelope.                              *)
(*                                                                         *)
(* JavaScript strings are sequences of one-character strings, so that the  *)
(* JSON.stringify / String.replace / JSON.parse pipeline of the handler is *)
(* computed character by character.                                        *)
(***************************************************************************)
EXTENDS Integers, Sequences, FiniteSets, TLC

(***************************************************************************)
(* Bounds of the model.                                                    *)
(***************************************************************************)
MaxMovies == 4      \* the store holds the first 0..MaxMovies catalogue movies
MaxPage == 3        \* page=<n> is drawn from -1..MaxPage
MaxLimit == 2       \* limit=<n> is drawn from -1..MaxLimit

(***************************************************************************)
(* Characters and strings.                                                 *)
(***************************************************************************)
LowerChars == <<"a","b","c","d","e","f","g","h","i","j","k","l","m",
                "n","o","p","q","r","s","t","u","v","w","x","y","z">>
UpperChars == <<"A","B","C","D","E","F","G","H","I","J","K","L","M",
                "N","O","P","Q","R","S","T","U","V","W","X","Y","Z">>
DigitChars == <<"0","1","2","3","4","5","6","7","8","9">>

Range(f) == {f[i] : i \in DOMAIN f}

\* \w of a JavaScript regular expression: [A-Za-z0-9_]
WordChars == Range(LowerChars) \cup Range(UpperChars) \cup Range(DigitChars) \cup {"_"}

IsWordChar(c) == c \in WordChars

IndexOf(seq, c) == CHOOSE i \in DOMAIN seq : seq[i] = c

\* String.prototype.toLowerCase on one character (the 'i' flag of $options)
LowerCase(c) == IF c \in Range(UpperChars) THEN LowerChars[IndexOf(UpperChars, c)] ELSE c

\* the decimal text of a small integer, as it appears in a query string
NumStr(n) ==
  LET d(k) == IF k < 10 THEN <<DigitChars[k + 1]>>
              ELSE <<DigitChars[(k \div 10) + 1], DigitChars[(k % 10) + 1]>>
  IN IF n < 0 THEN <<"-">> \o d(0 - n) ELSE d(n)

(***************************************************************************)
(* JavaScript values of req.query as the qs parser of Express delivers     *)
(* them: a string, a nested object (field[op]=v) or an array (k=a&k=b).    *)
(* An object is the sequence of its members in insertion order.            *)
(***************************************************************************)
StrV(s) == [t |-> "str", s |-> s, m |-> <<>>]
ObjV(m) == [t |-> "obj", s |-> <<>>, m |-> m]
ArrV(a) == [t |-> "arr", s |-> <<>>, m |-> [i \in DOMAIN a |-> [key |-> <<>>, val |-> a[i]]]]
Member(k, v) == [key |-> k, val |-> v]

Keys(m) == {m[i].key : i \in DOMAIN m}
HasKey(m, k) == k \in Keys(m)
Get(m, k) == m[CHOOSE i \in DOMAIN m : m[i].key = k].val

\* the delete operator: remove the member named k, keep the order of the rest
Delete(m, k) == SelectSeq(m, LAMBDA e : e.key # k)

\* assignment obj[k] = v: overwrite in place, or append a new member
SetMember(m, k, v) ==
  IF HasKey(m, k)
  THEN [i \in DOMAIN m |-> IF m[i].key = k THEN Member(k, v) ELSE m[i]]
  ELSE Append(m, Member(k, v))

(***************************************************************************)
(* JSON.stringify of such a value.  The strings of the model contain no    *)
(* quote, backslash or control character, so no escape is produced.        *)
(***************************************************************************)
Quote(s) == <<"\"">> \o s \o <<"\"">>

RECURSIVE JSONstringify(_)
RECURSIVE StringifyMembers(_, _, _)
StringifyMembers(m, i, isObj) ==
  IF i > Len(m) THEN <<>>
  ELSE (IF i > 1 THEN <<",">> ELSE <<>>)
       \o (IF isObj THEN Quote(m[i].key) \o <<":">> ELSE <<>>)
       \o JSONstringify(m[i].val)
       \o StringifyMembers(m, i + 1, isObj)

JSONstringify(v) ==
  IF v.t = "str" THEN Quote(v.s)
  ELSE IF v.t = "obj" THEN <<"{">> \o StringifyMembers(v.m, 1, TRUE) \o <<"}">>
  ELSE <<"[">> \o StringifyMembers(v.m, 1, FALSE) \o <<"]">>

(***************************************************************************)
(* queryStr.replace(/\b(gt|gte|lt|lte|in)\b/g, match => `$${match}`)       *)
(* A match starts and ends at a word boundary, so the matches are the      *)
(* maximal runs of word characters that spell one of the five tokens.      *)
(***************************************************************************)
OperatorTokens == { <<"g","t">>, <<"g","t","e">>, <<"l","t">>, <<"l","t","e">>, <<"i","n">> }

RECURSIVE WordEnd(_, _)
\* index of the last character of the run of word characters starting at i
WordEnd(text, i) ==
  IF i < Len(text) /\ IsWordChar(text[i + 1]) THEN WordEnd(text, i + 1) ELSE i

RECURSIVE ReplaceFrom(_, _)
ReplaceFrom(text, i) ==
  IF i > Len(text) THEN <<>>
  ELSE IF IsWordChar(text[i])
       THEN LET e == WordEnd(text, i)
                w == SubSeq(text, i, e)
            IN (IF w \in OperatorTokens THEN <<"$">> ELSE <<>>) \o w \o ReplaceFrom(text, e + 1)
       ELSE <<text[i]>> \o ReplaceFrom(text, i + 1)

ReplaceOperators(text) == ReplaceFrom(text, 1)

(***************************************************************************)
(* JSON.parse of a text made of objects, arrays and strings.  A repeated   *)
(* member name keeps its first position and takes the last value.          *)
(***************************************************************************)
RECURSIVE ClosingQuote(_, _)
ClosingQuote(text, i) == IF text[i] = "\"" THEN i ELSE ClosingQuote(text, i + 1)

RECURSIVE ParseValue(_, _)
RECURSIVE ParseMembers(_, _, _)
RECURSIVE ParseElements(_, _, _)

ParseMembers(text, i, acc) ==
  LET e == ClosingQuote(text, i + 1)
      key == SubSeq(text, i + 1, e - 1)
      r == ParseValue(text, e + 2)
      acc2 == SetMember(acc, key, r.v)
  IN IF text[r.next] = "," THEN ParseMembers(text, r.next + 1, acc2)
     ELSE [v |-> ObjV(acc2), next |-> r.next + 1]

ParseElements(text, i, acc) ==
  LET r == ParseValue(text, i)
      acc2 == Append(acc, r.v)
  IN IF text[r.next] = "," THEN ParseElements(text, r.next + 1, acc2)
     ELSE [v |-> ArrV(acc2), next |-> r.next + 1]

ParseValue(text, i) ==
  IF text[i] = "\""
  THEN LET e == ClosingQuote(text, i + 1)
       IN [v |-> StrV(SubSeq(text, i + 1, e - 1)), next |-> e + 1]
  ELSE IF text[i] = "{"
       THEN IF text[i + 1] = "}" THEN [v |-> ObjV(<<>>), next |-> i + 2]
            ELSE ParseMembers(text, i + 1, <<>>)
       ELSE IF text[i + 1] = "]" THEN [v |-> ArrV(<<>>), next |-> i + 2]
            ELSE ParseElements(text, i + 1, <<>>)

JSONparse(text) == ParseValue(text, 1).v

(***************************************************************************)
(* getMovies, lines 189-204: the filter handed to Movie.find and to        *)
(* Movie.countDocuments.                                                   *)
(***************************************************************************)
S_select == <<"s","e","l","e","c","t">>
S_sort == <<"s","o","r","t">>
S_page == <<"p","a","g","e">>
S_limit == <<"l","i","m","i","t">>
S_search == <<"s","e","a","r","c","h">>

removeFields == <<S_select, S_sort, S_page, S_limit, S_search>>

RECURSIVE DeleteAll(_, _, _)
DeleteAll(m, fields, i) ==
  IF i > Len(fields) THEN m ELSE DeleteAll(Delete(m, fields[i]), fields, i + 1)

\* const reqQuery = { ...req.query }; removeFields.forEach(param => delete reqQuery[param])
ReqQuery(query) == DeleteAll(query, removeFields, 1)

\* let queryStr = JSON.stringify(reqQuery); queryStr = queryStr.replace(...)
QueryStr(query) == ReplaceOperators(JSONstringify(ObjV(ReqQuery(query))))

\* JSON.parse(queryStr): the members of the filter object
Filter(query) == JSONparse(QueryStr(query)).m

(***************************************************************************)
(* parseInt(v, 10) || dflt, lines 232-233.                                 *)
(***************************************************************************)
Undefined == [t |-> "undef", s |-> <<>>, m |-> <<>>]

\* req.query[k]
Lookup(query, k) == IF HasKey(query, k) THEN Get(query, k) ELSE Undefined

RECURSIVE Join(_, _)
Join(parts, sep) ==
  IF Len(parts) = 0 THEN <<>>
  ELSE IF Len(parts) = 1 THEN parts[1]
  ELSE parts[1] \o sep \o Join(Tail(parts), sep)

RECURSIVE StringOf(_)
\* String(v): an array is its elements joined by commas
StringOf(v) ==
  IF v.t = "str" THEN v.s
  ELSE IF v.t = "arr" THEN Join([i \in DOMAIN v.m |-> StringOf(v.m[i].val)], <<",">>)
  ELSE IF v.t = "obj" THEN <<"[","o","b","j","e","c","t"," ","O","b","j","e","c","t","]">>
  ELSE <<"u","n","d","e","f","i","n","e","d">>

IsDigit(c) == c \in Range(DigitChars)
DigitVal(c) == IndexOf(DigitChars, c) - 1

RECURSIVE SkipSpaces(_)
SkipSpaces(s) == IF Len(s) > 0 /\ s[1] = " " THEN SkipSpaces(Tail(s)) ELSE s

RECURSIVE DigitsPrefix(_, _)
\* value of the longest prefix of digits of s, read after the digits in acc
DigitsPrefix(s, acc) ==
  IF Len(s) > 0 /\ IsDigit(s[1]) THEN DigitsPrefix(Tail(s), 10 * acc + DigitVal(s[1])) ELSE acc

NaN == [nan |-> TRUE, n |-> 0]
Num(n) == [nan |-> FALSE, n |-> n]

\* parseInt: leading blanks, an optional sign, then the longest run of digits;
\* NaN when there is no digit at that place
parseInt(v) ==
  LET s0 == SkipSpaces(StringOf(v))
      neg == Len(s0) > 0 /\ s0[1] = "-"
      s1 == IF Len(s0) > 0 /\ s0[1] \in {"-", "+"} THEN Tail(s0) ELSE s0
  IN IF Len(s1) = 0 \/ ~IsDigit(s1[1]) THEN NaN
     ELSE Num(IF neg THEN 0 - DigitsPrefix(s1, 0) ELSE DigitsPrefix(s1, 0))

\* x || dflt for a number x: NaN and 0 are falsy
OrDefault(x, dflt) == IF x.nan \/ x.n = 0 THEN dflt ELSE x.n

DefaultPage == 1
DefaultLimit == 10

\* const page = parseInt(req.query.page, 10) || 1
Page(query) == OrDefault(parseInt(Lookup(query, S_page)), DefaultPage)
\* const limit = parseInt(req.query.limit, 10) || 10
Limit(query) == OrDefault(parseInt(Lookup(query, S_limit)), DefaultLimit)
\* const startIndex = (page - 1) * limit
StartIndex(query) == (Page(query) - 1) * Limit(query)
EndIndex_OffByOne(query) == (Page(query) - 1) * Limit(query)

\* const endIndex = page * limit
EndIndex(query) == Page(query) * Limit(query)

\* truthiness of a query value: undefined and the empty string are falsy
Truthy(v) == ~(v.t = "undef" \/ (v.t = "str" /\ v.s = <<>>))

(***************************************************************************)
(* The record store behind the Movie model (Mongoose on MongoDB), as far   *)
(* as the handler uses it: find(filter), find({$or: [...$regex...]}),      *)
(* sort, skip, limit and countDocuments(filter).  The schema paths of the  *)
(* model are title, description, director (String), rating (Number) and    *)
(* createdAt (timestamp).                                                  *)
(***************************************************************************)
S_title == <<"t","i","t","l","e">>
S_description == <<"d","e","s","c","r","i","p","t","i","o","n">>
S_director == <<"d","i","r","e","c","t","o","r">>
S_rating == <<"r","a","t","i","n","g">>
S_createdAt == <<"c","r","e","a","t","e","d","A","t">>

StringPaths == {S_title, S_description, S_director}
NumberPaths == {S_rating, S_createdAt}
SchemaPaths == StringPaths \cup NumberPaths

\* movie[path]
PathValue(movie, path) ==
  CASE path = S_title -> movie.title
    [] path = S_description -> movie.description
    [] path = S_director -> movie.director
    [] path = S_rating -> movie.rating
    [] path = S_createdAt -> movie.createdAt

\* the characters of the model in code-unit order
CharOrder == <<" ", "$", ",", "-", ".">> \o DigitChars \o UpperChars \o <<"_">> \o LowerChars
CharCode(c) == IndexOf(CharOrder, c)

RECURSIVE LexLess(_, _)
LexLess(a, b) ==
  IF Len(b) = 0 THEN FALSE
  ELSE IF Len(a) = 0 THEN TRUE
  ELSE IF a[1] = b[1] THEN LexLess(Tail(a), Tail(b))
  ELSE CharCode(a[1]) < CharCode(b[1])

Less(path, a, b) == IF path \in NumberPaths THEN a < b ELSE LexLess(a, b)

S_gt == <<"$","g","t">>
S_gte == <<"$","g","t","e">>
S_lt == <<"$","l","t">>
S_lte == <<"$","l","t","e">>
S_in == <<"$","i","n">>
ComparisonOperators == {S_gt, S_gte, S_lt, S_lte}

IsOperatorKey(k) == Len(k) > 0 /\ k[1] = "$"

\* casting a query value to the type of a schema path
Castable(path, v) ==
  /\ v.t = "str"
  /\ path \in NumberPaths => (Len(v.s) > 0 /\ \A i \in DOMAIN v.s : IsDigit(v.s[i]))
Cast(path, v) == IF path \in NumberPaths THEN DigitsPrefix(v.s, 0) ELSE v.s

\* the operand list of $in: a lone value is wrapped into a one-element list
InOperands(v) == IF v.t = "arr" THEN [i \in DOMAIN v.m |-> v.m[i].val] ELSE <<v>>

\* one operator member {op: v} on a schema path: refused by the store?
OperatorRejected(path, op, v) ==
  IF op \in ComparisonOperators THEN ~Castable(path, v)
  ELSE IF op = S_in
       THEN v.t = "obj" \/ \E i \in DOMAIN InOperands(v) : ~Castable(path, InOperands(v)[i])
       ELSE TRUE

\* one operator member {op: v} on a schema path: does the movie satisfy it?
OperatorHolds(movie, path, op, v) ==
  LET x == PathValue(movie, path)
  IN CASE op = S_gt -> Less(path, Cast(path, v), x)
       [] op = S_gte -> ~Less(path, x, Cast(path, v))
       [] op = S_lt -> Less(path, x, Cast(path, v))
       [] op = S_lte -> ~Less(path, Cast(path, v), x)
       [] op = S_in -> \E i \in DOMAIN InOperands(v) : Cast(path, InOperands(v)[i]) = x

\* one member {key: val} of the filter: refused by the store?
ConditionRejected(key, val) ==
  IF IsOperatorKey(key) THEN TRUE                              \* unknown top-level operator
  ELSE IF key \in SchemaPaths
       THEN IF val.t = "str" THEN ~Castable(key, val)
            ELSE IF val.t = "arr" THEN TRUE                    \* CastError
            ELSE \E i \in DOMAIN val.m : OperatorRejected(key, val.m[i].key, val.m[i].val)
       ELSE /\ val.t = "obj"
            /\ \E i \in DOMAIN val.m :
                 /\ IsOperatorKey(val.m[i].key)
                 /\ \/ val.m[i].key \notin ComparisonOperators \cup {S_in}
                    \/ val.m[i].key = S_in /\ val.m[i].val.t # "arr"
                    \/ \E j \in DOMAIN val.m : ~IsOperatorKey(val.m[j].key)

\* one member {key: val} of the filter: does the movie satisfy it?
\* (a path that no document has matches nothing)
ConditionHolds(movie, key, val) ==
  IF key \notin SchemaPaths THEN FALSE
  ELSE IF val.t = "str" THEN PathValue(movie, key) = Cast(key, val)
       ELSE \A i \in DOMAIN val.m : OperatorHolds(movie, key, val.m[i].key, val.m[i].val)

FilterRejected(filter) == \E i \in DOMAIN filter : ConditionRejected(filter[i].key, filter[i].val)
FilterHolds(movie, filter) == \A i \in DOMAIN filter : ConditionHolds(movie, filter[i].key, filter[i].val)

\* { $regex: pattern, $options: 'i' } on one string: the pattern is a regular
\* expression; the model knows literal characters and the wildcard "."
RegexTest(pattern, s) ==
  \E off \in 0..(Len(s) - Len(pattern)) :
     \A i \in DOMAIN pattern :
        pattern[i] = "." \/ LowerCase(pattern[i]) = LowerCase(s[off + i])

\* the $or of the three $regex conditions, lines 208-214
SearchHolds(movie, pattern) ==
  \/ RegexTest(pattern, movie.title)
  \/ RegexTest(pattern, movie.description)
  \/ RegexTest(pattern, movie.director)

(***************************************************************************)
(* select, sort and the page window, lines 217-238.                        *)
(***************************************************************************)
RECURSIVE Split(_, _)
\* String.prototype.split(sep) for a one-character separator
Split(s, sep) ==
  IF \E i \in DOMAIN s : s[i] = sep
  THEN LET i == CHOOSE j \in DOMAIN s : s[j] = sep /\ \A k \in 1..(j - 1) : s[k] # sep
       IN <<SubSeq(s, 1, i - 1)>> \o Split(SubSeq(s, i + 1, Len(s)), sep)
  ELSE <<s>>

\* req.query.select.split(',').join(' ') and req.query.sort.split(',').join(' ')
SplitJoin(s) == Join(Split(s, ","), <<" ">>)

\* the argument of query.select(...), lines 218-221 ("" when select is falsy)
SelectFields_Unsplit(query) ==
  IF Truthy(Lookup(query, S_select)) THEN Lookup(query, S_select).s ELSE <<>>

SelectFields(query) ==
  IF Truthy(Lookup(query, S_select)) THEN SplitJoin(Lookup(query, S_select).s) ELSE <<>>

S_defaultSort == <<"-">> \o S_createdAt

SortBy_AlwaysDefault(query) == S_defaultSort

\* the argument of query.sort(...), lines 224-229
SortBy(query) ==
  IF Truthy(Lookup(query, S_sort)) THEN SplitJoin(Lookup(query, S_sort).s) ELSE S_defaultSort

\* a string handed to Query.sort: blank-separated paths, "-" for descending
SortSpec(sortBy) ==
  LET toks == SelectSeq(Split(sortBy, " "), LAMBDA t : Len(t) > 0)
  IN [i \in DOMAIN toks |->
        IF toks[i][1] = "-" THEN [path |-> Tail(toks[i]), desc |-> TRUE]
        ELSE [path |-> toks[i], desc |-> FALSE]]

RECURSIVE SortsBefore(_, _, _, _)
\* a comes strictly before b under the sort keys spec[i..]
SortsBefore(a, b, spec, i) ==
  IF i > Len(spec) THEN FALSE
  ELSE LET p == spec[i].path
       IN IF p \notin SchemaPaths \/ PathValue(a, p) = PathValue(b, p)
          THEN SortsBefore(a, b, spec, i + 1)
          ELSE IF spec[i].desc THEN Less(p, PathValue(b, p), PathValue(a, p))
               ELSE Less(p, PathValue(a, p), PathValue(b, p))

\* the documents ms in the order of spec; documents that the keys do not
\* separate keep their store order
SortDocs(ms, spec) ==
  LET rank(j) == Cardinality({k \in DOMAIN ms :
                     \/ SortsBefore(ms[k], ms[j], spec, 1)
                     \/ (k < j /\ ~SortsBefore(ms[j], ms[k], spec, 1))})
  IN [r \in DOMAIN ms |-> ms[CHOOSE j \in DOMAIN ms : rank(j) = r - 1]]

Abs(n) == IF n < 0 THEN 0 - n ELSE n
Min(a, b) == IF a < b THEN a ELSE b

\* skip(n).limit(l) on a result list; a negative limit asks for |l| documents
Window(docs, skip, limit) == SubSeq(docs, skip + 1, Min(Len(docs), skip + Abs(limit)))

CountedDocs_FirstOnly(store, filter) ==
  LET counted == SelectSeq(store, LAMBDA d : FilterHolds(d, filter))
  IN IF counted = <<>> THEN counted ELSE <<counted[1]>>
\* the documents countDocuments(filter) counts
CountedDocs(store, filter) == SelectSeq(store, LAMBDA d : FilterHolds(d, filter))

\* the documents the page query selects before sort, skip and limit:
\* find(filter) narrowed by find({$or: ...}) when the search was added
FoundDocs(store, filter, hasSearch, pattern) ==
  SelectSeq(store, LAMBDA d : FilterHolds(d, filter) /\ (hasSearch => SearchHolds(d, pattern)))

(***************************************************************************)
(* The documents the store can hold, and the requests of the model.        *)
(***************************************************************************)
Catalogue ==
<< [id |-> 1, title |-> <<"B","a","t","m","a","n">>, description |-> <<"a"," ","b","a","t">>,
    director |-> <<"N","o","l","a","n">>, rating |-> 9, createdAt |-> 1, createdBy |-> 2, updatedBy |-> 0,
    status |-> "active", releaseDate |-> 3, genre |-> {"Action"}],
   [id |-> 2, title |-> <<"U","p">>, description |-> <<"b","a","l","l","o","o","n","s">>,
    director |-> <<"D","o","c","t","e","r">>, rating |-> 8, createdAt |-> 2, createdBy |-> 3, updatedBy |-> 0,
    status |-> "inactive", releaseDate |-> 4, genre |-> {"Drama"}],
   [id |-> 3, title |-> <<"A","l","l"," ","i","n">>, description |-> <<"p","o","k","e","r">>,
    director |-> <<"L","e","e">>, rating |-> 6, createdAt |-> 3, createdBy |-> 1, updatedBy |-> 0,
    status |-> "active", releaseDate |-> 1, genre |-> {"Drama"}],
   [id |-> 4, title |-> <<"H","e","a","t">>, description |-> <<"L",".","A","."," ","c","o","p","s">>,
    director |-> <<"M","a","n","n">>, rating |-> 8, createdAt |-> 4, createdBy |-> 2, updatedBy |-> 0,
    status |-> "active", releaseDate |-> 2, genre |-> {"Action", "Drama"}],
   [id |-> 5, title |-> <<"S","u","b","a","t","o","m","i","c">>, description |-> <<"p","h","y","s","i","c","s">>,
    director |-> <<"B","a","t","r","a">>, rating |-> 7, createdAt |-> 5, createdBy |-> 3, updatedBy |-> 0,
    status |-> "coming-soon", releaseDate |-> 6, genre |-> {"Drama"}],
   [id |-> 6, title |-> <<"G","r","a","n"," ","T","o","r","i","n","o">>, description |-> <<"a"," ","c","a","r">>,
    director |-> <<"E","a","s","t","w","o","o","d">>, rating |-> 8, createdAt |-> 6, createdBy |-> 1, updatedBy |-> 0,
    status |-> "active", releaseDate |-> 5, genre |-> {"Drama"}] >>

Stores == {SubSeq(Catalogue, 1, n) : n \in 0..Min(MaxMovies, Len(Catalogue))}

Bracket(field, op, value) == <<Member(field, ObjV(<<Member(op, StrV(value))>>))>>
Bare(field, value) == <<Member(field, StrV(value))>>

\* the filter parameters of a request
FilterParams ==
  { <<>>,
    Bracket(S_rating, <<"g","t","e">>, <<"8">>),
    Bracket(S_rating, <<"g","t">>, <<"7">>),
    Bracket(S_rating, <<"l","t">>, <<"8">>),
    Bracket(S_rating, <<"l","t","e">>, <<"8">>),
    Bracket(S_rating, <<"i","n">>, <<"8",",","9">>),
    Bracket(S_rating, <<"i","n">>, <<"8">>),
    Bracket(S_director, <<"i","n">>, <<"M","a","n","n",",","L","e","e">>),
    Bracket(S_rating, <<"G","T","E">>, <<"8">>),
    Bracket(S_rating, <<"e","q">>, <<"8">>),
    Bracket(S_rating, <<"g","t","-","x">>, <<"8">>),
    Bare(S_director, <<"N","o","l","a","n">>),
    Bare(S_title, <<"A","l","l"," ","i","n">>),
    Bare(S_title, <<"U","p">>),
    Bare(<<"i","n">>, <<"5">>),
    Bare(<<"y","e","a","r">>, <<"5">>),
    Bracket(S_rating, <<"g","t","e">>, <<"7">>) \o Bare(S_director, <<"N","o","l","a","n">>) }

SearchParams ==
  { <<>>, Bare(S_search, <<>>), Bare(S_search, <<"b","a","t">>),
    Bare(S_search, <<"B","A","T">>), Bare(S_search, <<".">>) }

PageParams ==
  { <<>>, Bare(S_page, <<"a","b","c">>), Bare(S_page, <<"2","a","b","c">>) }
  \cup { Bare(S_page, NumStr(n)) : n \in (0 - 1)..MaxPage }

LimitParams ==
  { <<>>, Bare(S_limit, <<"a","b","c">>) }
  \cup { Bare(S_limit, NumStr(n)) : n \in (0 - 1)..MaxLimit }

\* sort and select parameters
OrderParams ==
  { <<>>,
    Bare(S_sort, <<>>),
    Bare(S_select, <<>>),
    Bare(S_sort, <<"-">> \o S_rating \o <<",">> \o S_title)
      \o Bare(S_select, S_rating \o <<",">> \o S_title \o <<",">> \o S_director),
    Bare(S_sort, <<"-">> \o S_rating),
    Bare(S_sort, S_rating \o <<",">> \o S_title),
    Bare(S_select, S_title \o <<",">> \o S_rating),
    <<Member(S_select, ArrV(<<StrV(S_title), StrV(S_rating)>>))>> }

\* the filter and search parameters that are combined with every page window
WindowFilterParams ==
  { <<>>, Bracket(S_rating, <<"g","t","e">>, <<"8">>), Bare(S_title, <<"U","p">>) }
WindowSearchParams ==
  { <<>>, Bare(S_search, <<"b","a","t">>), Bare(S_search, <<".">>) }

\* req.query of the requests the model sends: every filter with every search
\* and order on the default window, and every window on a few filters
Queries ==
  { f \o s \o o : f \in FilterParams, s \in SearchParams, o \in OrderParams }
  \cup { f \o s \o p \o l : f \in WindowFilterParams, s \in WindowSearchParams,
                            p \in PageParams, l \in LimitParams }

(***************************************************************************)
(* The handler as a state machine.  It runs synchronously up to its first  *)
(* await (countDocuments, line 236), resumes with the total, awaits the    *)
(* page query (line 244) and then builds the response.                     *)
(***************************************************************************)
VARIABLES
  movies,     \* the documents of the store, in insertion order
  pc,         \* "idle", "count" (awaiting line 236), "find" (awaiting line 244), "done"
  query,      \* req.query of the request being handled
  plan,       \* what the handler has built from req.query
  total,      \* const total, line 236
  outcome,    \* "none", "response" (res.status(200).json) or "error" (next(error))
  res,        \* the body passed to res.json
  sent,       \* how often the handler has called res.json for this request
  forwarded,  \* how often the handler has called next(error) for this request
  storeFailed,\* history: a store query of this request was refused or failed
  received,   \* history: req.query as the request arrived
  seen,       \* history: the store as the count query and the page query saw it
  last,       \* history: what the previous request was and what it produced
  req,        \* the request the movies router is handling
  at,         \* the route and the place in its handler chain that runs next
  apc,        \* "idle", "run" (a handler is about to be called), "write"
              \* (updateMovie or deleteMovie awaits its write), "done"
  ran,        \* history: the handlers called for this request, in order
  status,     \* the status of the response; 0: none yet, -1: next(error)
  held,       \* the document updateMovie or deleteMovie read with findById
  before,     \* history: the store when the request arrived
  nextId,     \* the id of the next document created
  payload     \* the body of a list handler's response

getMoviesVars == <<pc, query, plan, total, outcome, res, sent, forwarded, storeFailed, received, seen>>
routerVars == <<req, at, apc, ran, status, held, before, nextId, payload>>
vars == <<movies, getMoviesVars, last, routerVars>>

NoPlan ==
  [filter |-> <<>>, hasSearch |-> FALSE, search |-> Undefined, hasSelect |-> FALSE,
   select |-> <<>>, sortBy |-> <<>>, page |-> 0, limit |-> 0, startIndex |-> 0, endIndex |-> 0]

NoPage == [page |-> 0, limit |-> 0]

NoRes ==
  [count |-> 0, total |-> 0, hasNext |-> FALSE, next |-> NoPage,
   hasPrev |-> FALSE, prev |-> NoPage, data |-> <<>>]

\* req.query.select.split / req.query.sort.split on a value that is no string
TranslationThrows(q) ==
  \/ Truthy(Lookup(q, S_select)) /\ Lookup(q, S_select).t # "str"
  \/ Truthy(Lookup(q, S_sort)) /\ Lookup(q, S_sort).t # "str"

QueryAfterCopy_Aliased(q) == ReqQuery(q)

\* req.query once lines 189-195 have run: reqQuery is a copy ({ ...req.query }),
\* so the deletes of line 195 leave req.query as it was
QueryAfterCopy(q) == q

NoLast == [any |-> FALSE, query |-> <<>>, plan |-> NoPlan, outcome |-> "none", res |-> NoRes]

Plan_Accumulating(q) ==
  LET rq == QueryAfterCopy(q)
  IN [filter |-> last.plan.filter \o Filter(q),
      hasSearch |-> Truthy(Lookup(rq, S_search)),
      search |-> Lookup(rq, S_search),
      hasSelect |-> Truthy(Lookup(rq, S_select)),
      select |-> SelectFields(rq),
      sortBy |-> SortBy(rq),
      page |-> Page(rq),
      limit |-> Limit(rq),
      startIndex |-> StartIndex(rq),
      endIndex |-> EndIndex(rq)]

\* lines 186-235: everything the handler derives from req.query; the filter
\* from the copy (line 204), the rest from req.query itself (lines 207-235)
Plan(q) ==
  LET rq == QueryAfterCopy(q)
  IN [filter |-> Filter(q),
      hasSearch |-> Truthy(Lookup(rq, S_search)),
      search |-> Lookup(rq, S_search),
      hasSelect |-> Truthy(Lookup(rq, S_select)),
      select |-> SelectFields(rq),
      sortBy |-> SortBy(rq),
      page |-> Page(rq),
      limit |-> Limit(rq),
      startIndex |-> StartIndex(rq),
      endIndex |-> EndIndex(rq)]

\* the store refuses the page query: a condition it cannot cast, a $regex
\* that is no string, or a negative skip
FindRejected(pl) ==
  \/ FilterRejected(pl.filter)
  \/ pl.hasSearch /\ pl.search.t # "str"
  \/ pl.startIndex < 0

\* const movies = await query, line 244
FindResult(store, pl) ==
  Window(SortDocs(FoundDocs(store, pl.filter, pl.hasSearch, pl.search.s), SortSpec(pl.sortBy)),
         pl.startIndex, pl.limit)

\* lines 247-269: the pagination object and the response body
Response(pl, tot, docs) ==
  [count |-> Len(docs),
   total |-> tot,
   hasNext |-> pl.endIndex < tot,
   next |-> IF pl.endIndex < tot THEN [page |-> pl.page + 1, limit |-> pl.limit] ELSE NoPage,
   hasPrev |-> pl.startIndex > 0,
   prev |-> IF pl.startIndex > 0 THEN [page |-> pl.page - 1, limit |-> pl.limit] ELSE NoPage,
   data |-> [i \in DOMAIN docs |-> docs[i].id]]

\* getMovies is not running
NoSeen == [counted |-> <<>>, found |-> <<>>]

GetMoviesIdle ==
  /\ pc = "idle"
  /\ query = <<>>
  /\ plan = NoPlan
  /\ total = 0
  /\ outcome = "none"
  /\ res = NoRes
  /\ sent = 0
  /\ forwarded = 0
  /\ storeFailed = FALSE
  /\ received = <<>>
  /\ seen = NoSeen
  /\ last = NoLast

NoRequest == [method |-> "", path |-> <<>>, query |-> <<>>, user |-> 0, body |-> [has |-> {}, title |-> <<>>, rating |-> 0, createdBy |-> 0]]
NoPayload == [count |-> 0, total |-> 0, page |-> 0, limit |-> 0, pages |-> 0, data |-> <<>>]
NoDoc == [found |-> FALSE, id |-> 0, createdBy |-> 0]

\* the router is handling no request
RouterIdle ==
  /\ req = NoRequest
  /\ at = [route |-> 0, step |-> 0]
  /\ apc = "idle"
  /\ ran = <<>>
  /\ status = 0
  /\ held = NoDoc
  /\ before = <<>>
  /\ payload = NoPayload

Init ==
  /\ movies \in Stores
  /\ RouterIdle
  /\ nextId = 0
  /\ pc = "idle"
  /\ query = <<>>
  /\ plan = NoPlan
  /\ total = 0
  /\ outcome = "none"
  /\ res = NoRes
  /\ sent = 0
  /\ forwarded = 0
  /\ storeFailed = FALSE
  /\ received = <<>>
  /\ seen = NoSeen
  /\ last = NoLast

\* a request arrives and getMovies runs up to the await of line 236
GetMoviesCall(q) ==
  /\ pc = "idle"
  /\ received' = q
  /\ query' = QueryAfterCopy(q)
  /\ total' = 0
  /\ res' = NoRes
  /\ seen' = NoSeen
  /\ IF TranslationThrows(q)
     THEN /\ plan' = NoPlan
          /\ outcome' = "error"
          /\ forwarded' = forwarded + 1
          /\ pc' = "done"
     ELSE /\ plan' = Plan(q)
          /\ outcome' = "none"
          /\ pc' = "count"
          /\ UNCHANGED forwarded
  /\ UNCHANGED <<movies, sent, storeFailed, last, routerVars>>

\* countDocuments settles: with the count, or with an error that the catch
\* block forwards to next
CountSettles ==
  /\ pc = "count"
  /\ \E storeFails \in BOOLEAN :
       IF storeFails \/ FilterRejected(plan.filter)
       THEN /\ outcome' = "error"
            /\ forwarded' = forwarded + 1
            /\ storeFailed' = TRUE
            /\ pc' = "done"
            /\ UNCHANGED <<total, seen>>
       ELSE /\ total' = Len(CountedDocs(movies, plan.filter))
            /\ seen' = [seen EXCEPT !.counted = movies]
            /\ pc' = "find"
            /\ UNCHANGED <<outcome, forwarded, storeFailed>>
  /\ UNCHANGED <<movies, query, plan, res, sent, received, last, routerVars>>

FindSettles_RespondsAfterError ==
  /\ pc = "find"
  /\ \E storeFails \in BOOLEAN :
       /\ res' = Response(plan, total, FindResult(movies, plan))
       /\ sent' = sent + 1
       /\ seen' = [seen EXCEPT !.found = movies]
       /\ IF storeFails \/ FindRejected(plan)
          THEN /\ outcome' = "error"
               /\ forwarded' = forwarded + 1
               /\ storeFailed' = TRUE
          ELSE /\ outcome' = "response"
               /\ UNCHANGED <<forwarded, storeFailed>>
  /\ pc' = "done"
  /\ UNCHANGED <<movies, query, plan, total, received, last, routerVars>>

\* the page query settles: the handler responds (line 263), or the catch
\* block forwards the error (line 271)
FindSettles ==
  /\ pc = "find"
  /\ \E storeFails \in BOOLEAN :
       IF storeFails \/ FindRejected(plan)
       THEN /\ outcome' = "error"
            /\ forwarded' = forwarded + 1
            /\ storeFailed' = TRUE
            /\ UNCHANGED <<res, sent, seen>>
       ELSE /\ res' = Response(plan, total, FindResult(movies, plan))
            /\ seen' = [seen EXCEPT !.found = movies]
            /\ outcome' = "response"
            /\ sent' = sent + 1
            /\ UNCHANGED <<forwarded, storeFailed>>
  /\ pc' = "done"
  /\ UNCHANGED <<movies, query, plan, total, received, last, routerVars>>

\* what ends with the request: req, res and the locals of the handler
Discard ==
  /\ pc' = "idle"
  /\ query' = <<>>
  /\ plan' = NoPlan
  /\ total' = 0
  /\ outcome' = "none"
  /\ res' = NoRes
  /\ sent' = 0
  /\ forwarded' = 0
  /\ storeFailed' = FALSE
  /\ received' = <<>>
  /\ seen' = NoSeen

\* the request is over: req, res and the handler's locals are discarded
RequestEnds ==
  /\ pc = "done"
  /\ Discard
  /\ UNCHANGED <<movies, last, routerVars>>

\* the same, with the request and its result remembered for comparison
RequestEndsRecorded ==
  /\ pc = "done"
  /\ last' = [any |-> TRUE, query |-> received, plan |-> plan, outcome |-> outcome, res |-> res]
  /\ Discard
  /\ UNCHANGED <<movies, routerVars>>

Next ==
  \/ \E q \in Queries : GetMoviesCall(q)
  \/ CountSettles
  \/ FindSettles
  \/ RequestEnds

Spec == Init /\ [][Next]_vars

\* the requests that are sent twice in a row
TwiceQueries ==
  { <<>>,
    Bracket(S_rating, <<"g","t","e">>, <<"8">>),
    Bare(S_title, <<"U","p">>),
    Bare(<<"i","n">>, <<"5">>),
    Bare(S_search, <<"b","a","t">>),
    Bare(S_sort, S_rating \o <<",">> \o S_title) \o Bare(S_limit, <<"2">>),
    Bare(S_page, <<"2">>) \o Bare(S_limit, <<"1">>),
    <<Member(S_select, ArrV(<<StrV(S_title), StrV(S_rating)>>))>> }

NextTwice ==
  \/ \E q \in TwiceQueries : GetMoviesCall(q)
  \/ CountSettles
  \/ FindSettles
  \/ RequestEndsRecorded

\* consecutive requests against a store that does not change
SpecTwice == Init /\ [][NextTwice]_vars

(***************************************************************************)
(* The movies router: routes in registration order, each with its chain    *)
(* of handlers, and the controllers that read and write single movies.     *)
(* A path is the sequence of its segments below /api/movies.               *)
(***************************************************************************)
\* the movies one client creates while the model runs
MaxCreated == 1

\* user ids; 0 stands for a request that carries no valid token
Users == {1, 2, 3}
Role(u) == IF u = 1 THEN "admin" ELSE "user"

Route(method, pattern, chain) == [method |-> method, pattern |-> pattern, chain |-> chain]

\* router.get('/admin/stats', protect, authorize('admin'), getMovieStats)
StatsChain_NoAuthorize == <<"protect", "getMovieStats">>
StatsChain == <<"protect", "authorize", "getMovieStats">>
\* the roles handed to authorize on the statistics route
AuthorizedRoles == {"admin"}

\* router.post('/', protect, validateMovie, createMovie)
CreateChain_ValidatesFirst == <<"validateMovie", "protect", "createMovie">>
CreateChain == <<"protect", "validateMovie", "createMovie">>

Routes_IdRouteFirst ==
  << Route("GET", <<>>, <<"getMovies">>),
     Route("GET", <<":id">>, <<"getMovie">>),
     Route("GET", <<"top-rated">>, <<"getTopRatedMovies">>),
     Route("GET", <<"latest">>, <<"getLatestMovies">>),
     Route("GET", <<"genre", ":genre">>, <<"getMoviesByGenre">>),
     Route("POST", <<>>, CreateChain),
     Route("PUT", <<":id">>, <<"protect", "validateMovieUpdate", "updateMovie">>),
     Route("DELETE", <<":id">>, <<"protect", "deleteMovie">>),
     Route("GET", <<"admin", "stats">>, StatsChain) >>
Routes ==
  << Route("GET", <<>>, <<"getMovies">>),
     Route("GET", <<"top-rated">>, <<"getTopRatedMovies">>),
     Route("GET", <<"latest">>, <<"getLatestMovies">>),
     Route("GET", <<"genre", ":genre">>, <<"getMoviesByGenre">>),
     Route("GET", <<":id">>, <<"getMovie">>),
     Route("POST", <<>>, CreateChain),
     Route("PUT", <<":id">>, <<"protect", "validateMovieUpdate", "updateMovie">>),
     Route("DELETE", <<":id">>, <<"protect", "deleteMovie">>),
     Route("GET", <<"admin", "stats">>, StatsChain) >>

IsParam(segment) == segment \in {":id", ":genre"}

\* the route's method and path pattern accept the request
Matches(route, r) ==
  /\ route.method = r.method
  /\ Len(route.pattern) = Len(r.path)
  /\ \A i \in 1..Len(r.path) : IsParam(route.pattern[i]) \/ route.pattern[i] = r.path[i]

\* the first route from position from on that accepts the request; 0: none
FirstMatch(r, from) ==
  LET matching == { i \in from..Len(Routes) : Matches(Routes[i], r) }
  IN IF matching = {} THEN 0 ELSE CHOOSE i \in matching : \A j \in matching : i <= j

\* the path segment that names the movie with this id
IdSegment(id) == DigitChars[id + 1]
\* req.params.id as the store casts it; -1: not an id, the cast fails
ParamId(r) ==
  LET ids == { n \in 0..9 : IdSegment(n) = r.path[1] }
  IN IF ids = {} THEN -1 ELSE CHOOSE n \in ids : TRUE

\* request bodies: has is the set of the fields the body carries
Body(has, title, rating, createdBy) == [has |-> has, title |-> title, rating |-> rating, createdBy |-> createdBy]
NoBody == Body({}, <<>>, 0, 0)

\* String.prototype.trim, on the spaces the model's strings can hold
RECURSIVE TrimEnd(_)
TrimEnd(s) == IF s # <<>> /\ s[Len(s)] = " " THEN TrimEnd(SubSeq(s, 1, Len(s) - 1)) ELSE s
Trim(s) == TrimEnd(SkipSpaces(s))

TitleAccepted(b) == Len(Trim(b.title)) >= 1 /\ Len(Trim(b.title)) <= 200
RatingAccepted(b) == b.rating >= 0 /\ b.rating <= 10

\* the fields of the body that break a rule of validateMovie
MovieErrors(b) ==
  (IF "title" \notin b.has \/ ~TitleAccepted(b) THEN {"title"} ELSE {})
    \cup (IF "rating" \notin b.has \/ ~RatingAccepted(b) THEN {"rating"} ELSE {})
\* the fields of the body that break a rule of validateMovieUpdate
MovieUpdateErrors(b) ==
  (IF "title" \in b.has /\ ~TitleAccepted(b) THEN {"title"} ELSE {})
    \cup (IF "rating" \in b.has /\ ~RatingAccepted(b) THEN {"rating"} ELSE {})

\* the document Movie.create stores for the body, createdBy already set
NewMovie(id, b, user) ==
  [id |-> id, title |-> Trim(b.title), description |-> <<>>, director |-> <<>>,
   rating |-> b.rating, createdAt |-> id, createdBy |-> user, updatedBy |-> 0,
   status |-> "active", releaseDate |-> 0, genre |-> {}]

\* the document after findByIdAndUpdate has set the fields of the body
Updated(m, b, user) ==
  [m EXCEPT !.title = IF "title" \in b.has THEN Trim(b.title) ELSE @,
            !.rating = IF "rating" \in b.has THEN b.rating ELSE @,
            !.createdBy = IF "createdBy" \in b.has THEN b.createdBy ELSE @,
            !.updatedBy = user]

\* Movie.findById
Found(store, id) == \E i \in DOMAIN store : store[i].id = id
FindById(store, id) == store[CHOOSE i \in DOMAIN store : store[i].id = id]

\* the documents of the store with one of them replaced, or removed
UpdateOne(store, id, b, user) ==
  [i \in DOMAIN store |-> IF store[i].id = id THEN Updated(store[i], b, user) ELSE store[i]]
RECURSIVE DeleteOne(_, _)
DeleteOne(store, id) ==
  IF store = <<>> THEN <<>>
  ELSE IF Head(store).id = id THEN Tail(store)
  ELSE <<Head(store)>> \o DeleteOne(Tail(store), id)

\* movie.createdBy.toString() !== req.user.id && req.user.role !== 'admin'
NotOwnerNorAdmin_CheckMissing(movie, user) == FALSE
NotOwnerNorAdmin(movie, user) == movie.createdBy # user /\ Role(user) # "admin"

\* the store the router starts with: one movie, stored by user 2
InitialMovies == SubSeq(Catalogue, 1, 1)

\* the handler the router calls next
Handler == Routes[at.route].chain[at.step]

\* the router calls the handler it has reached
Called(name) ==
  /\ apc = "run"
  /\ Handler = name
  /\ ran' = Append(ran, name)

\* next(): the following handler of the chain, or the next route that matches
PassOn ==
  IF at.step < Len(Routes[at.route].chain)
  THEN at' = [at EXCEPT !.step = @ + 1] /\ apc' = "run" /\ status' = status
  ELSE LET route == FirstMatch(req, at.route + 1)
       IN /\ at' = [route |-> route, step |-> IF route = 0 THEN 0 ELSE 1]
          /\ apc' = IF route = 0 THEN "done" ELSE "run"
          /\ status' = IF route = 0 THEN 404 ELSE status

\* res.status(code).json(...); -1 stands for next(error)
Reply(code) ==
  /\ status' = code
  /\ apc' = "done"
  /\ at' = at

\* a request reaches the router; one that matches no route gets the
\* application's 404
Arrives(r) ==
  /\ apc = "idle"
  /\ r.method = "POST" => nextId <= Len(InitialMovies) + MaxCreated
  /\ req' = r
  /\ LET route == FirstMatch(r, 1)
     IN /\ at' = [route |-> route, step |-> IF route = 0 THEN 0 ELSE 1]
        /\ apc' = IF route = 0 THEN "done" ELSE "run"
        /\ status' = IF route = 0 THEN 404 ELSE 0
  /\ ran' = <<>>
  /\ held' = NoDoc
  /\ before' = movies
  /\ payload' = NoPayload
  /\ UNCHANGED <<movies, nextId, getMoviesVars, last>>

Protect ==
  /\ Called("protect")
  /\ IF req.user # 0 THEN PassOn ELSE Reply(401)
  /\ UNCHANGED <<movies, req, held, before, nextId, getMoviesVars, last, payload>>

Authorize ==
  /\ Called("authorize")
  /\ IF Role(req.user) \in AuthorizedRoles THEN PassOn ELSE Reply(403)
  /\ UNCHANGED <<movies, req, held, before, nextId, getMoviesVars, last, payload>>

ValidateMovie_NeverRejects ==
  /\ Called("validateMovie")
  /\ PassOn
  /\ UNCHANGED <<movies, req, held, before, nextId, getMoviesVars, last, payload>>
ValidateMovie ==
  /\ Called("validateMovie")
  /\ IF MovieErrors(req.body) # {} THEN Reply(400) ELSE PassOn
  /\ UNCHANGED <<movies, req, held, before, nextId, getMoviesVars, last, payload>>

ValidateMovieUpdate ==
  /\ Called("validateMovieUpdate")
  /\ IF MovieUpdateErrors(req.body) # {} THEN Reply(400) ELSE PassOn
  /\ UNCHANGED <<movies, req, held, before, nextId, getMoviesVars, last, payload>>

\* The controllers that only read the store answer 200 with what they
\* found, or hand the store's error to next.

\* getMovies as the router calls it; its steps are GetMoviesCall and after
ListMovies ==
  /\ Called("getMovies")
  /\ Reply(200) \/ Reply(-1)
  /\ UNCHANGED <<movies, req, held, before, nextId, getMoviesVars, last, payload>>

\* the documents ms, greatest key first; documents with equal keys keep
\* their store order
SortDescending(ms, key) ==
  LET rank(j) == Cardinality({k \in DOMAIN ms :
                     \/ ms[k][key] > ms[j][key]
                     \/ (k < j /\ ms[k][key] = ms[j][key])})
  IN [r \in DOMAIN ms |-> ms[CHOOSE j \in DOMAIN ms : rank(j) = r - 1]]

\* Movie.find({ status: 'active' })
ActiveMovies(store) == SelectSeq(store, LAMBDA m : m.status = "active")
\* Movie.find({ genre: { $in: [genre] } })
GenreMovies(store, genre) == SelectSeq(store, LAMBDA m : genre \in m.genre)

\* Math.ceil(total / limit); limit is never 0
Ceil(n, d) ==
  IF d > 0 THEN (n + d - 1) \div d ELSE 0 - (n \div (0 - d))

\* getTopRatedMovies
GetTopRatedMovies ==
  /\ Called("getTopRatedMovies")
  /\ \/ Reply(-1) /\ payload' = payload
     \/ LET limit == Limit(req.query)
            found == Window(SortDescending(ActiveMovies(movies), "rating"), 0, limit)
        IN /\ payload' = [NoPayload EXCEPT !.count = Len(found), !.limit = limit, !.data = found]
           /\ Reply(200)
  /\ UNCHANGED <<movies, req, held, before, nextId, getMoviesVars, last>>

\* getLatestMovies
GetLatestMovies ==
  /\ Called("getLatestMovies")
  /\ \/ Reply(-1) /\ payload' = payload
     \/ LET limit == Limit(req.query)
            found == Window(SortDescending(ActiveMovies(movies), "releaseDate"), 0, limit)
        IN /\ payload' = [NoPayload EXCEPT !.count = Len(found), !.limit = limit, !.data = found]
           /\ Reply(200)
  /\ UNCHANGED <<movies, req, held, before, nextId, getMoviesVars, last>>

\* getMoviesByGenre; the store refuses a negative skip
GetMoviesByGenre ==
  /\ Called("getMoviesByGenre")
  /\ LET genre == req.path[2]
         page == Page(req.query)
         limit == Limit(req.query)
         skip == (page - 1) * limit
         matching == GenreMovies(movies, genre)
     IN \/ Reply(-1) /\ payload' = payload
        \/ /\ skip >= 0
           /\ LET found == Window(SortDescending(matching, "createdAt"), skip, limit)
              IN payload' = [count |-> Len(found), total |-> Len(matching), page |-> page,
                             limit |-> limit, pages |-> Ceil(Len(matching), limit), data |-> found]
           /\ Reply(200)
  /\ UNCHANGED <<movies, req, held, before, nextId, getMoviesVars, last>>

\* getMovieStats: three aggregations, then the response
GetMovieStats ==
  /\ Called("getMovieStats")
  /\ Reply(200) \/ Reply(-1)
  /\ UNCHANGED <<movies, req, held, before, nextId, getMoviesVars, last, payload>>

GetMovie_AlwaysFound ==
  /\ Called("getMovie")
  /\ Reply(200) \/ Reply(-1)
  /\ UNCHANGED <<movies, req, held, before, nextId, getMoviesVars, last, payload>>
GetMovie ==
  /\ Called("getMovie")
  /\ \/ Reply(-1)
     \/ /\ ParamId(req) # -1
        /\ IF Found(movies, ParamId(req)) THEN Reply(200) ELSE Reply(404)
  /\ UNCHANGED <<movies, req, held, before, nextId, getMoviesVars, last, payload>>

CreateMovie ==
  /\ Called("createMovie")
  /\ \/ Reply(-1) /\ UNCHANGED <<movies, nextId>>
     \/ /\ movies' = Append(movies, NewMovie(nextId, req.body, req.user))
        /\ nextId' = nextId + 1
        /\ Reply(201) \/ Reply(-1)
  /\ UNCHANGED <<req, held, before, getMoviesVars, last, payload>>

\* updateMovie up to its second await: findById, the 404 and the 401
UpdateMovie ==
  /\ Called("updateMovie")
  /\ \/ Reply(-1) /\ held' = held
     \/ /\ ParamId(req) # -1
        /\ IF ~Found(movies, ParamId(req))
           THEN Reply(404) /\ held' = held
           ELSE LET movie == FindById(movies, ParamId(req))
                IN /\ held' = [found |-> TRUE, id |-> movie.id, createdBy |-> movie.createdBy]
                   /\ IF NotOwnerNorAdmin(movie, req.user)
                      THEN Reply(401)
                      ELSE at' = at /\ apc' = "write" /\ status' = status
  /\ UNCHANGED <<movies, req, before, nextId, getMoviesVars, last, payload>>

\* deleteMovie up to its second await: findById, the 404 and the 401
DeleteMovie ==
  /\ Called("deleteMovie")
  /\ \/ Reply(-1) /\ held' = held
     \/ /\ ParamId(req) # -1
        /\ IF ~Found(movies, ParamId(req))
           THEN Reply(404) /\ held' = held
           ELSE LET movie == FindById(movies, ParamId(req))
                IN /\ held' = [found |-> TRUE, id |-> movie.id, createdBy |-> movie.createdBy]
                   /\ IF NotOwnerNorAdmin(movie, req.user)
                      THEN Reply(401)
                      ELSE at' = at /\ apc' = "write" /\ status' = status
  /\ UNCHANGED <<movies, req, before, nextId, getMoviesVars, last, payload>>

\* Movie.findByIdAndUpdate(req.params.id, req.body, ...) settles
UpdateMovieWrites ==
  /\ apc = "write"
  /\ Handler = "updateMovie"
  /\ \/ Reply(-1) /\ movies' = movies
     \/ movies' = UpdateOne(movies, held.id, req.body, req.user) /\ Reply(200)
  /\ UNCHANGED <<req, ran, held, before, nextId, getMoviesVars, last, payload>>

\* movie.deleteOne() settles
DeleteMovieWrites ==
  /\ apc = "write"
  /\ Handler = "deleteMovie"
  /\ \/ Reply(-1) /\ movies' = movies
     \/ movies' = DeleteOne(movies, held.id) /\ Reply(200)
  /\ UNCHANGED <<req, ran, held, before, nextId, getMoviesVars, last, payload>>

\* the response is out; the router is free for the next request
Completes ==
  /\ apc = "done"
  /\ req' = NoRequest
  /\ at' = [route |-> 0, step |-> 0]
  /\ apc' = "idle"
  /\ ran' = <<>>
  /\ status' = 0
  /\ held' = NoDoc
  /\ before' = <<>>
  /\ payload' = NoPayload
  /\ UNCHANGED <<movies, nextId, getMoviesVars, last>>

Request(method, path, user, body) == [method |-> method, path |-> path, query |-> <<>>, user |-> user, body |-> body]

\* the ids requests name: a stored movie, a created one, one never stored
RequestIds == {1, 2, 9}
Title_X == <<"X", " ">>
CreateBodies ==
  { Body({"title", "rating"}, Title_X, 5, 0),
    Body({"title", "rating", "createdBy"}, Title_X, 5, 3),
    Body({"rating"}, <<>>, 5, 0) }
UpdateBodies ==
  { Body({"rating"}, <<>>, 5, 0),
    Body({"rating"}, <<>>, 11, 0),
    Body({"createdBy"}, <<>>, 0, 3) }

Requests ==
  { Request("GET", path, user, NoBody) :
      path \in { <<>>, <<"top-rated">>, <<"latest">>, <<"genre", "drama">>,
                 <<IdSegment(1)>>, <<IdSegment(9)>>, <<"stats">>, <<"admin", "movies">> },
      user \in {0, 2} }
    \cup { Request("GET", <<"admin", "stats">>, user, NoBody) : user \in {0} \cup Users }
    \cup { Request("POST", <<>>, user, body) : user \in {0} \cup Users, body \in CreateBodies }
    \cup { Request("PUT", <<IdSegment(id)>>, user, body) :
             id \in RequestIds, user \in {0} \cup Users, body \in UpdateBodies }
    \cup { Request("DELETE", <<IdSegment(id)>>, user, NoBody) :
             id \in RequestIds, user \in {0} \cup Users }

InitRouter ==
  /\ movies = InitialMovies
  /\ GetMoviesIdle
  /\ RouterIdle
  /\ nextId = Len(InitialMovies) + 1

NextRouter ==
  \/ \E r \in Requests : Arrives(r)
  \/ Protect
  \/ Authorize
  \/ ValidateMovie
  \/ ValidateMovieUpdate
  \/ ListMovies
  \/ GetTopRatedMovies
  \/ GetLatestMovies
  \/ GetMoviesByGenre
  \/ GetMovie
  \/ CreateMovie
  \/ UpdateMovie
  \/ DeleteMovie
  \/ UpdateMovieWrites
  \/ DeleteMovieWrites
  \/ GetMovieStats
  \/ Completes

SpecRouter == InitRouter /\ [][NextRouter]_vars

\* requests for the list routes: GET <path>?page=..&limit=..
ListPaths == { <<"top-rated">>, <<"latest">>, <<"genre", "Drama">>, <<"genre", "Action">>, <<"genre", "Horror">> }
ListRequests ==
  { [Request("GET", path, 0, NoBody) EXCEPT !.query = page \o limit] :
      path \in ListPaths,
      page \in {<<>>, Bare(S_page, <<"-", "1">>), Bare(S_page, <<"2">>)},
      limit \in {<<>>, Bare(S_limit, <<"a", "b", "c">>)}
                 \cup {Bare(S_limit, NumStr(n)) : n \in -2..MaxLimit} }

InitLists ==
  /\ movies \in Stores \ {<<>>}
  /\ GetMoviesIdle
  /\ RouterIdle
  /\ nextId = 0

NextLists ==
  \/ \E r \in ListRequests : Arrives(r)
  \/ GetTopRatedMovies
  \/ GetLatestMovies
  \/ GetMoviesByGenre
  \/ Completes

\* the list routes against the stores of the catalogue
SpecLists == InitLists /\ [][NextLists]_vars

\* getMovies requests, and the requests of other clients that create and
\* delete movies while getMovies awaits the store
InterleavedQueries ==
  { <<>>, Bare(S_limit, <<"1">>), Bracket(S_rating, <<"g","t","e">>, <<"5">>), Bare(S_search, <<"b","a","t">>) }
InterleavedWrites ==
  { Request("POST", <<>>, 2, Body({"title", "rating"}, Title_X, 5, 0)) }
    \cup { Request("DELETE", <<IdSegment(id)>>, 2, NoBody) : id \in {1, 2} }

NextInterleaved ==
  \/ \E q \in InterleavedQueries : GetMoviesCall(q)
  \/ CountSettles
  \/ FindSettles
  \/ RequestEnds
  \/ \E r \in InterleavedWrites : Arrives(r)
  \/ Protect
  \/ ValidateMovie
  \/ CreateMovie
  \/ DeleteMovie
  \/ DeleteMovieWrites
  \/ Completes

\* getMovies running while other clients create and delete movies
SpecInterleaved == InitRouter /\ [][NextInterleaved]_vars

(***************************************************************************)
(* Properties of getMovies.                                                *)
(***************************************************************************)
\* the handler has built its plan from req.query
Translated == pc # "idle" /\ plan # NoPlan
\* the handler has sent its 200 response
Responded == pc = "done" /\ outcome = "response"

ReservedKeys == Range(removeFields)
\* the filter parameters of the request: its members other than the reserved ones
FilterMembers == {i \in DOMAIN query : query[i].key \notin ReservedKeys}

Ids(docs) == [i \in DOMAIN docs |-> docs[i].id]

\* s contains one of the operator tokens as a whole word
HasOperatorWord(s) ==
  \E i \in DOMAIN s : \E j \in i..Len(s) :
     /\ SubSeq(s, i, j) \in OperatorTokens
     /\ (i = 1 \/ ~IsWordChar(s[i - 1]))
     /\ (j = Len(s) \/ ~IsWordChar(s[j + 1]))

\* text contains s, letter case ignored
ContainsIgnoreCase(text, s) ==
  \E off \in 0..(Len(text) - Len(s)) :
     \A i \in DOMAIN s : LowerCase(s[i]) = LowerCase(text[off + i])

\* C1: pagination.next is present exactly when page * limit < total, and is
\* then {page: page + 1, limit: limit}
C1_NextIffMoreRecords ==
  Responded =>
    /\ res.hasNext <=> (plan.page * plan.limit < res.total)
    /\ res.hasNext => res.next = [page |-> plan.page + 1, limit |-> plan.limit]

C1_Witness == Responded /\ res.hasNext /\ plan.page = 2 /\ res.next = [page |-> 3, limit |-> 1]

\* C2: pagination.prev is present exactly when page > 1, for every parsed
\* page and limit, and is then {page: page - 1, limit: limit}
C2_PrevIffPageAboveOne ==
  Responded =>
    /\ res.hasPrev <=> (plan.page > 1)
    /\ res.hasPrev => res.prev = [page |-> plan.page - 1, limit |-> plan.limit]

\* C3: the reported total is the number of records that match the filter
\* predicates and the search predicate, the predicate that selects the page
C3_TotalCountsFilterAndSearch ==
  Responded =>
    res.total = Len(SelectSeq(movies, LAMBDA d :
                      /\ FilterHolds(d, plan.filter)
                      /\ plan.hasSearch => SearchHolds(d, plan.search.s)))

\* C4: for page >= 1 and limit >= 1 the store skips (page-1)*limit records and
\* count is min(limit, total - skip) when skip < total, else 0
C4_CountFillsWindow ==
  (Responded /\ plan.page >= 1 /\ plan.limit >= 1) =>
    /\ plan.startIndex = (plan.page - 1) * plan.limit
    /\ res.count = IF plan.startIndex < res.total
                   THEN Min(plan.limit, res.total - plan.startIndex)
                   ELSE 0

\* C5: select, sort, page, limit and search are never fields of the filter
\* sent to the store, and every other key of the request is one
C5_ReservedKeysNeverFilter ==
  Translated =>
    /\ Keys(plan.filter) \cap ReservedKeys = {}
    /\ \A i \in FilterMembers : query[i].key \in Keys(plan.filter)

\* C6: field[op]=value with op in gt, gte, lt, lte yields {field: {$op: value}}
\* and a bare field=value yields {field: value} with the value unchanged
C6_OperatorAndEqualityMapping ==
  Translated =>
    \A i \in FilterMembers :
      LET k == query[i].key
          v == query[i].val
      IN /\ HasKey(plan.filter, k)
         /\ v.t = "str" => Get(plan.filter, k) = v
         /\ v.t = "obj" =>
              \A j \in DOMAIN v.m :
                 v.m[j].key \in OperatorTokens \ {<<"i","n">>} =>
                    /\ Get(plan.filter, k).t = "obj"
                    /\ HasKey(Get(plan.filter, k).m, <<"$">> \o v.m[j].key)
                    /\ Get(Get(plan.filter, k).m, <<"$">> \o v.m[j].key) = v.m[j].val

\* C7: field[in]=v1,...,vn yields {field: {$in: [v1, ..., vn]}}, the value
\* split on commas
C7_InValueSplitOnCommas ==
  Translated =>
    \A i \in FilterMembers :
      LET k == query[i].key
          v == query[i].val
      IN v.t = "obj" =>
           \A j \in DOMAIN v.m :
              (v.m[j].key = <<"i","n">> /\ v.m[j].val.t = "str") =>
                 LET parts == Split(v.m[j].val.s, ",")
                 IN /\ HasKey(plan.filter, k)
                    /\ HasKey(Get(plan.filter, k).m, S_in)
                    /\ Get(Get(plan.filter, k).m, S_in)
                          = ArrV([x \in DOMAIN parts |-> StrV(parts[x])])

\* C8: an operator token that is a whole word of a parameter value or a bare
\* field name reaches the store unchanged
C8_RewriteOnlyInBrackets ==
  Translated =>
    \A i \in FilterMembers :
      LET k == query[i].key
          v == query[i].val
      IN (v.t = "str" /\ (HasOperatorWord(v.s) \/ k \in OperatorTokens)) =>
            /\ HasKey(plan.filter, k)
            /\ Get(plan.filter, k) = v

\* C9: field[x] with x none of gt, gte, lt, lte, in reaches the store filter
\* with x unchanged, and translating it raises no error
C9_UnknownBracketPassesThrough ==
  \A i \in FilterMembers :
    LET k == query[i].key
        v == query[i].val
    IN (pc # "idle" /\ v.t = "obj" /\ k \notin OperatorTokens) =>
         \A j \in DOMAIN v.m :
            v.m[j].key \notin OperatorTokens =>
               /\ (\A r \in {S_select, S_sort} : Lookup(query, r).t \in {"undef", "str"})
                     => Translated
               /\ Translated =>
                     /\ HasKey(plan.filter, k)
                     /\ HasKey(Get(plan.filter, k).m, v.m[j].key)

\* C10: with a non-empty search s the returned records are those of the page
\* window over the records that satisfy every filter predicate and contain s
\* in title, description or director, letter case ignored; with no search or
\* an empty one no search predicate applies
C10_SearchIsSubstringMatch ==
  Responded =>
    LET s == Lookup(query, S_search)
        wanted(d) ==
          /\ FilterHolds(d, plan.filter)
          /\ Truthy(s) => \/ ContainsIgnoreCase(d.title, s.s)
                          \/ ContainsIgnoreCase(d.description, s.s)
                          \/ ContainsIgnoreCase(d.director, s.s)
    IN res.data = Ids(Window(SortDocs(SelectSeq(movies, wanted), SortSpec(plan.sortBy)),
                             plan.startIndex, plan.limit))

\* the document of the store with the given id
DocOf(id) == movies[CHOOSE k \in DOMAIN movies : movies[k].id = id]

\* the non-empty comma-separated tokens of a parameter value
Tokens(s) == SelectSeq(Split(s, ","), LAMBDA t : Len(t) > 0)

\* the sort order the sort parameter of the request asks for: its tokens in
\* the given order, "-" for descending; descending createdAt without one
RequestedOrder(q) ==
  IF Truthy(Lookup(q, S_sort))
  THEN LET toks == Tokens(Lookup(q, S_sort).s)
       IN [i \in DOMAIN toks |->
             IF toks[i][1] = "-" THEN [path |-> Tail(toks[i]), desc |-> TRUE]
             ELSE [path |-> toks[i], desc |-> FALSE]]
  ELSE <<[path |-> S_createdAt, desc |-> TRUE]>>

\* C11: the tokens of sort are applied in the given order, the first one as
\* the primary key and "-" as descending; with no sort or an empty one the
\* sort specification is exactly descending createdAt
C11_SortTokensInOrder ==
  /\ Translated => SortSpec(plan.sortBy) = RequestedOrder(query)
  /\ Responded =>
       \A i \in DOMAIN res.data : \A j \in DOMAIN res.data :
          i < j => ~SortsBefore(DocOf(res.data[j]), DocOf(res.data[i]), RequestedOrder(query), 1)

C11_Witness ==
  /\ Responded
  /\ Lookup(query, S_sort) = StrV(S_rating \o <<",">> \o S_title)
  /\ res.data = <<3, 4, 2, 1>>

\* C12: with select the projection handed to the store is the list of its
\* comma-separated tokens in the same order; without select there is none
C12_SelectTokensInOrder ==
  Translated =>
    IF Truthy(Lookup(query, S_select))
    THEN /\ plan.hasSelect
         /\ Split(plan.select, " ") = Split(Lookup(query, S_select).s, ",")
    ELSE /\ ~plan.hasSelect
         /\ plan.select = <<>>

C12_Witness ==
  /\ Translated
  /\ plan.hasSelect
  /\ Split(plan.select, " ") = <<S_rating, S_title, S_director>>

\* s is the text of an integer: an optional sign, then digits only
IsIntegerText(s) ==
  LET d == IF Len(s) > 0 /\ s[1] \in {"-", "+"} THEN Tail(s) ELSE s
  IN Len(d) > 0 /\ \A i \in DOMAIN d : IsDigit(d[i])

\* v is missing or is no number
MissingOrNonNumeric(v) == v.t = "undef" \/ (v.t = "str" /\ ~IsIntegerText(v.s))

\* C13: a missing or non-numeric page gives page = 1, a missing or
\* non-numeric limit gives limit = 10, and no error comes of it
C13_NonNumericFallsBack ==
  (pc # "idle" /\ ~TranslationThrows(query)) =>
    /\ Translated
    /\ MissingOrNonNumeric(Lookup(query, S_page)) => plan.page = DefaultPage
    /\ MissingOrNonNumeric(Lookup(query, S_limit)) => plan.limit = DefaultLimit

\* C14: the window handed to the store has page >= 1, limit >= 1, skip >= 0
C14_WindowIsPositive ==
  (pc = "find" \/ Responded) =>
    /\ plan.page >= 1
    /\ plan.limit >= 1
    /\ plan.startIndex >= 0

\* every parameter value of the request is a string or an array of strings
StringsOrArrays(q) ==
  \A i \in DOMAIN q :
     \/ q[i].val.t = "str"
     \/ q[i].val.t = "arr" /\ \A j \in DOMAIN q[i].val.m : q[i].val.m[j].val.t = "str"

\* C15: for parameter values that are strings or arrays of strings, building
\* the plan forwards no error to next
C15_PlanBuildingNeverThrows ==
  (pc # "idle" /\ StringsOrArrays(query)) => ~(plan = NoPlan /\ outcome = "error")

\* C16: a failing count or page query is forwarded to next exactly once and
\* no success response is sent; every execution of getMovies ends with exactly
\* one of "response sent" and "error forwarded"
C16_ExactlyOneOutcome ==
  /\ pc = "done" => sent + forwarded = 1
  /\ pc # "done" => sent + forwarded = 0
  /\ storeFailed => (pc = "done" /\ forwarded = 1 /\ sent = 0)

C16_Witness == storeFailed /\ pc = "done" /\ plan # NoPlan /\ total > 0 /\ forwarded = 1

C18_NothingChangedOutsideResponse ==
  /\ [][movies' = movies]_vars
  /\ [](pc # "idle" => query = received)
  /\ [](pc = "idle" => /\ plan = NoPlan /\ total = 0 /\ res = NoRes /\ outcome = "none"
                       /\ sent = 0 /\ forwarded = 0)

C18_Witness ==
  /\ pc = "find"
  /\ HasKey(query, S_search) /\ HasKey(query, S_page) /\ HasKey(query, S_limit)
  /\ query = received
  /\ plan.hasSearch


(***************************************************************************)
(* Properties of the movies router.                                        *)
(***************************************************************************)
\* the requester is the movie's creator or an admin
OwnerOrAdmin(createdBy, user) == user # 0 /\ (createdBy = user \/ Role(user) = "admin")

\* the store holds the document as it is
Stored(store, m) == \E i \in DOMAIN store : store[i] = m

\* updateMovie or deleteMovie has run for the request and read its movie
ReadByUpdateOrDelete ==
  /\ ran # <<>>
  /\ ran[Len(ran)] \in {"updateMovie", "deleteMovie"}
  /\ held.found

\* C19: updateMovie and deleteMovie change or remove a stored movie only when
\* the authenticated requester is the movie's createdBy or has role admin;
\* for any other requester that reaches them with an existing movie the
\* response is 401, no write is started and the store is as it was when the
\* request arrived.
C19_OnlyOwnerOrAdminWrites ==
  /\ [][\A i \in DOMAIN movies :
          ~Stored(movies', movies[i])
            => /\ ran # <<>> /\ ran[Len(ran)] \in {"updateMovie", "deleteMovie"}
               /\ OwnerOrAdmin(movies[i].createdBy, req.user)]_vars
  /\ [](ReadByUpdateOrDelete /\ ~OwnerOrAdmin(held.createdBy, req.user)
          => apc = "done" /\ status = 401 /\ movies = before)

\* a requester who is neither creator nor admin has been refused by
\* deleteMovie, on a movie its creator had updated before
C19_Witness ==
  /\ ReadByUpdateOrDelete
  /\ ran[Len(ran)] = "deleteMovie"
  /\ req.user = 3
  /\ held.createdBy = 2
  /\ status = 401
  /\ \E i \in DOMAIN movies : movies[i].id = held.id /\ movies[i].updatedBy = 2

\* C20: getMovieStats is called only after protect and then authorize have
\* been called and have passed the request on, in that order, and only for
\* a requester who is authenticated and has role admin.
C20_StatsOnlyAfterProtectThenAuthorize ==
  (\E i \in DOMAIN ran : ran[i] = "getMovieStats")
    => /\ ran = <<"protect", "authorize", "getMovieStats">>
       /\ req.user # 0
       /\ Role(req.user) = "admin"

\* an admin has received the statistics
C20_Witness ==
  /\ ran = <<"protect", "authorize", "getMovieStats">>
  /\ Role(req.user) = "admin"
  /\ status = 200


\* the handler called last for the request
LastCalled == IF ran = <<>> THEN "" ELSE ran[Len(ran)]
WasCalled(name) == \E i \in DOMAIN ran : ran[i] = name

\* C21: createMovie, updateMovie and deleteMovie are called only after
\* protect has passed the request on, createMovie and updateMovie only after
\* their validation has passed it on too, in the order protect, validation,
\* controller; the store changes in no other handler; the handlers that
\* read are called without protect.
C21_WritesBehindProtectAndValidation ==
  /\ [](WasCalled("createMovie")
          => ran = <<"protect", "validateMovie", "createMovie">>
             /\ req.user # 0 /\ MovieErrors(req.body) = {})
  /\ [](WasCalled("updateMovie")
          => ran = <<"protect", "validateMovieUpdate", "updateMovie">>
             /\ req.user # 0 /\ MovieUpdateErrors(req.body) = {})
  /\ [](WasCalled("deleteMovie") => ran = <<"protect", "deleteMovie">> /\ req.user # 0)
  /\ [][movies' # movies => LastCalled' \in {"createMovie", "updateMovie", "deleteMovie"}]_vars
  /\ [](LastCalled \in {"getMovies", "getMovie", "getTopRatedMovies", "getLatestMovies",
                        "getMoviesByGenre"} => Len(ran) = 1)

\* a movie has been created behind protect and validateMovie
C21_Witness ==
  /\ ran = <<"protect", "validateMovie", "createMovie">>
  /\ status = 201
  /\ Len(movies) = Len(before) + 1

\* getMovie, updateMovie or deleteMovie has answered a request whose id
\* names no stored movie
AnsweredMissingId ==
  /\ apc = "done"
  /\ LastCalled \in {"getMovie", "updateMovie", "deleteMovie"}
  /\ ~Found(before, ParamId(req))

\* C22: when findById finds no movie with the given id (the id is one the
\* store can look up and the lookup succeeds), getMovie, updateMovie and
\* deleteMovie respond 404, whoever asks (the existence check precedes the
\* ownership check, so never 401), start no write and leave the store
\* unchanged.
C22_MissingIdGets404 ==
  AnsweredMissingId /\ ParamId(req) # -1 /\ status # -1
    => status = 404 /\ movies = before /\ held = NoDoc

\* a requester who owns nothing has asked updateMovie for a missing id
C22_Witness ==
  /\ AnsweredMissingId
  /\ LastCalled = "updateMovie"
  /\ req.user = 3
  /\ ParamId(req) = 9
  /\ status = 404

\* the rules of the validation the route of the request runs
BodyErrors ==
  IF req.method = "POST" THEN MovieErrors(req.body) ELSE MovieUpdateErrors(req.body)
Validators == {"validateMovie", "validateMovieUpdate"}

\* C23: when the body breaks a rule, the validation responds 400, the
\* controller is never called and the store is unchanged; when it breaks
\* none, the validation sends nothing and passes the request on once, to
\* the controller.
C23_ValidationRejectsOrPassesOn ==
  /\ ((\E i \in DOMAIN ran : ran[i] \in Validators) /\ BodyErrors # {})
       => /\ apc = "done"
          /\ status = 400
          /\ LastCalled \in Validators
          /\ movies = before
  /\ (LastCalled \in Validators /\ BodyErrors = {})
       => /\ apc = "run"
          /\ status = 0
          /\ at.step = Len(ran) + 1
          /\ Handler \in {"createMovie", "updateMovie"}

\* an update with rating 11 has been refused
C23_Witness ==
  /\ LastCalled = "validateMovieUpdate"
  /\ req.body.rating = 11
  /\ status = 400
  /\ apc = "done"

\* C26: GET /top-rated, /latest and /genre/:genre go to their own handlers
\* and never to getMovie; GET /admin/stats, registered after GET /:id, is
\* never handled by getMovie.
C26_DedicatedRoutesBeforeId ==
  /\ (req.method = "GET" /\ ran # <<>>)
       => /\ req.path = <<"top-rated">> => ran = <<"getTopRatedMovies">>
          /\ req.path = <<"latest">> => ran = <<"getLatestMovies">>
          /\ (Len(req.path) = 2 /\ req.path[1] = "genre") => ran = <<"getMoviesByGenre">>
          /\ req.path = <<"admin", "stats">> => ran[1] = "protect"
  /\ WasCalled("getMovie")
       => /\ req.path \notin {<<"top-rated">>, <<"latest">>, <<"admin", "stats">>}
          /\ Len(req.path) = 1

\* GET /top-rated has been answered by getTopRatedMovies
C26_Witness ==
  /\ req.path = <<"top-rated">>
  /\ ran = <<"getTopRatedMovies">>
  /\ status = 200

\* C27: a stored movie's createdBy is the user who created it: createMovie
\* stores the authenticated user whatever the body says, no later step
\* changes the createdBy of a stored movie, and a successful updateMovie
\* leaves the requester in updatedBy.
C27_CreatedByIsTheCreator ==
  [][/\ \A j \in DOMAIN movies' :
          IF Found(movies, movies'[j].id)
          THEN movies'[j].createdBy = FindById(movies, movies'[j].id).createdBy
          ELSE movies'[j].createdBy = req.user
     /\ (LastCalled = "updateMovie" /\ status' = 200 /\ Found(movies', held.id))
          => FindById(movies', held.id).updatedBy = req.user]_vars


(***************************************************************************)
(* Properties of the list handlers.                                        *)
(***************************************************************************)
\* a list handler has answered with its documents
Listed(name) == apc = "done" /\ LastCalled = name /\ status = 200

\* the documents returned are active documents of the store, greatest key
\* first, at most limit of them, and no active document left out has a
\* greater key than one returned
BestActive(key) ==
  LET data == payload.data
  IN /\ \A i \in DOMAIN data : data[i].status = "active" /\ Stored(movies, data[i])
     /\ \A i, j \in DOMAIN data : i < j => data[i][key] >= data[j][key]
     /\ Len(data) <= payload.limit
     /\ \A k \in DOMAIN movies :
          (movies[k].status = "active" /\ ~Stored(data, movies[k]))
            => \A i \in DOMAIN data : movies[k][key] <= data[i][key]

\* C24: getTopRatedMovies returns only active movies, in non-increasing
\* order of rating, at most limit of them, and no active movie left out has
\* a higher rating than one returned; getLatestMovies does the same with
\* releaseDate.
C24_TopRatedAndLatestAreBestActive ==
  /\ Listed("getTopRatedMovies") => BestActive("rating")
  /\ Listed("getLatestMovies") => BestActive("releaseDate")

\* C25: getMoviesByGenre returns only movies whose genres contain the
\* requested genre, total is the number of such movies, and pages is the
\* smallest non-negative integer p with p * limit >= total, for every limit.
C25_GenrePagesCoverTotal ==
  Listed("getMoviesByGenre")
    => /\ \A i \in DOMAIN payload.data :
            /\ req.path[2] \in payload.data[i].genre
            /\ Stored(movies, payload.data[i])
       /\ payload.total = Cardinality({k \in DOMAIN movies : req.path[2] \in movies[k].genre})
       /\ payload.pages >= 0
       /\ payload.pages * payload.limit >= payload.total
       /\ \A p \in 0..(payload.pages - 1) : p * payload.limit < payload.total

(***************************************************************************)
(* getMovies among requests that write.                                    *)
(***************************************************************************)
\* C28 as stated: in every getMovies response to a request without search,
\* count <= total, whatever createMovie and deleteMovie requests land
\* between the count query and the page query.
C28_CountAtMostTotal ==
  (Responded /\ ~plan.hasSearch) => res.count <= res.total

\* C28 amended: in every getMovies response to a request without search,
\* count <= total provided every movie stored at the page query was stored,
\* as it is, at the count query; deleteMovie requests landing in between
\* keep it, a createMovie request in between can break it.
C28_CountAtMostTotalUnlessCreated ==
  (Responded /\ ~plan.hasSearch
     /\ \A i \in DOMAIN seen.found : Stored(seen.counted, seen.found[i]))
    => res.count <= res.total

\* a movie was deleted between the count query and the page query
C28_Witness ==
  /\ Responded
  /\ ~plan.hasSearch
  /\ seen.counted # seen.found
  /\ \A i \in DOMAIN seen.found : Stored(seen.counted, seen.found[i])
  /\ res.total = 2
  /\ res.count = 1

====
